---- MODULE Spec2Model ----
(***************************************************************************)
(* SSM-ClockKe v2.1: the desktop session (clockke_desktop_v2_1.py), the    *)
(* exported CSV record set and the stand-alone verifier                    *)
(* (clockke_verify_v2_1.py).                                               *)
(*                                                                         *)
(* Conventions of the model                                                *)
(*  - Python floats are fixed-point integers in units of 10^-6 (SCALE).    *)
(*    dt_ms and tick_ms are whole milliseconds.                            *)
(*  - Python strings are TLA+ strings; "a" \o "b" is concatenation.        *)
(*  - hashlib.sha256(b).hexdigest() is a collision-free digest: the text   *)
(*    "<" \o b \o ">".  The characters < and > occur in no field, so the   *)
(*    digest of a concatenation decides its parts exactly when SHA-256     *)
(*    has no collision on the inputs compared.                             *)
(*  - Python's None is the empty tuple; a value that may be None is a      *)
(*    tuple of length 0 or 1.                                              *)
(***************************************************************************)
EXTENDS Integers, Sequences, FiniteSets, TLC

VARIABLES
    U,                \* desktop:208  accumulated weighted evidence
    W,                \* desktop:209  accumulated weight
    prev_stamp,       \* desktop:210  chain tail
    tick_index,       \* desktop:211
    running,          \* desktop:212
    rows,             \* desktop:213  the in-memory record list
    last_tick_epoch,  \* desktop:215  None or the epoch (ms) of the last tick
    TICK_MS,          \* desktop:48   global cadence, refreshed by every tick
    lbl_status,       \* desktop:296  the status line of the window
    after_queue,      \* Tk: number of tick callbacks scheduled by root.after
    disk,             \* the CSV file last written by on_export, as lines of cells
    edit,             \* what an editor of the file did to it after the export
    stdout,           \* verifier: what verify_file printed about the file as it is
    decay,            \* desktop:54   the decay factor of the kernel under test
    a_last,           \* desktop:410  the last a_out of the kernel under test
    hist,             \* the transformed inputs u the kernel under test was fed
    clamped,          \* the clamped raw inputs a_c it was fed
    call,             \* a function called on its own: its name and arguments
    ret,              \* None or what the call returned
    max_ticks,        \* run:194      run_clockke_cli's parameter
    pc,               \* run:225-329  where run_clockke_cli is
    interrupted       \* run:299      KeyboardInterrupt was raised

vars == <<U, W, prev_stamp, tick_index, running, rows, last_tick_epoch, TICK_MS,
          lbl_status, after_queue, disk, edit, stdout,
          decay, a_last, hist, clamped, call, ret, max_ticks, pc, interrupted>>

engine == <<U, W, prev_stamp, tick_index, rows, last_tick_epoch, TICK_MS>>

\* the desktop session, the file and the verifier
session == <<engine, running, lbl_status, after_queue, disk, edit, stdout>>

\* what the desktop session and the verifier never touch
aux == <<decay, a_last, hist, clamped, call, ret, max_ticks, pc, interrupted>>

-----------------------------------------------------------------------------
(* Bounds of the model.                                                    *)

\* desktop:69 sets AUTO_STOP_TICKS = 600 ("change if needed"); the model runs
\* the same guard with a small limit.
AUTO_STOP_TICKS == 3

\* root.after callbacks that may be scheduled at once (Start is not taken
\* when it would schedule one more).
MaxPending == 2

\* Elapsed time between two ticks (ms) as measured by time.time().
DtSet == {250, 2000}

\* rng.uniform(-1.0, 1.0), in units of 10^-6.
NoiseSet == {-1000000, 1000000}

\* stress_var.get(): the slider, in units of 10^-6 (desktop:64-66, 285).
StressSet == {0}

\* tick_ms_var.get(): the cadence selector (desktop:48-49, 276).
TickMsSet == {1000}

\* time.time() at the first tick of a session (ms).  Only differences of
\* epochs are used by the code, so one value stands for all.
EpochSet == {0}

-----------------------------------------------------------------------------
(* Fixed-point arithmetic: a float x is the integer round(x * SCALE).       *)

SCALE == 10 ^ 6

HALF_SCALE == 10 ^ 3

Abs(a) == IF a < 0 THEN -a ELSE a

Sgn(a) == IF a < 0 THEN -1 ELSE 1

\* a / n rounded to nearest, n > 0
RoundDiv(a, n) == Sgn(a) * ((2 * Abs(a) + n) \div (2 * n))

\* a * b / SCALE for a, b >= 0, rounded, without leaving 32 bits
MulAbs(a, b) ==
    LET a1 == a \div HALF_SCALE
        a0 == a % HALF_SCALE
        b1 == b \div HALF_SCALE
        b0 == b % HALF_SCALE
    IN  a1 * b1
        + ((a1 * b0 + a0 * b1 + ((a0 * b0 + SCALE \div 2) \div HALF_SCALE))
             \div HALF_SCALE)

\* float multiplication
MulFix(a, b) == Sgn(a) * Sgn(b) * MulAbs(Abs(a), Abs(b))

RECURSIVE LongDiv(_, _, _)
\* the next n decimal digits of r / b (0 <= r < b), the last one rounded
LongDiv(r, b, n) ==
    IF n = 0
    THEN (IF 2 * r >= b THEN 1 ELSE 0)
    ELSE ((r * 10) \div b) * (10 ^ (n - 1)) + LongDiv((r * 10) % b, b, n - 1)

\* float division, b # 0
DivFix(a, b) ==
    Sgn(a) * Sgn(b) * ((Abs(a) \div Abs(b)) * SCALE + LongDiv(Abs(a) % Abs(b), Abs(b), 6))

\* ln(m) for m near 1: 2 * atanh((m - 1) / (m + 1)), the series to t^7
LnNear1(m) ==
    LET t  == DivFix(m - SCALE, m + SCALE)
        t2 == MulFix(t, t)
        t3 == MulFix(t, t2)
        t5 == MulFix(t3, t2)
        t7 == MulFix(t5, t2)
    IN  2 * t + RoundDiv(2 * t3, 3) + RoundDiv(2 * t5, 5) + RoundDiv(2 * t7, 7)

RECURSIVE Ln(_)
\* math.log(v), v > 0: halved or doubled into [sqrt(1/2), sqrt(2)), ln 2 = 0.693147
Ln(v) ==
    IF v < 707107 THEN Ln(2 * v) - 693147
    ELSE IF v >= 1414214 THEN Ln(RoundDiv(v, 2)) + 693147
    ELSE LnNear1(v)

\* math.log1p(x), x > -1
log1p(x) == Ln(SCALE + x)

RECURSIVE ExpSeries(_, _, _)
\* Horner form of sum (-r)^i / i!, from term n down to term 1
ExpSeries(r, n, acc) ==
    IF n = 0 THEN acc
    ELSE ExpSeries(r, n - 1, SCALE - RoundDiv(MulFix(r, acc), n))

\* math.exp(-y), y >= 0: y = k * ln 2 + r
ExpNeg(y) ==
    LET k == y \div 693147
        r == y % 693147
    IN  IF k < 30 THEN RoundDiv(ExpSeries(r, 10, SCALE), 2 ^ k) ELSE 0

\* math.tanh(z)
tanh(z) ==
    LET e == ExpNeg(2 * Abs(z))
    IN  Sgn(z) * DivFix(SCALE - e, SCALE + e)

-----------------------------------------------------------------------------
(* Manifest-style parameters (desktop:44-69), in units of 10^-6.            *)

EPS_A == 1

W_DEFAULT == 1000000

DECAY_W == 995000

BASELINE_A == 20000

JITTER_GAIN == 150000

FREEZE_MULT == 1500000

FREEZE_PENALTY == 50000

NOISE_AMPL == 10000

-----------------------------------------------------------------------------
(* Helper functions (desktop:89-185).                                       *)

clamp_a(a) ==
    LET lo == -SCALE + EPS_A
        hi == SCALE - EPS_A
    IN  IF a < lo THEN lo
        ELSE IF a > hi THEN hi
        ELSE a

atanh_safe(x) == RoundDiv(log1p(x) - log1p(-x), 2)

\* a classification whose thresholds belong to the lower band
classify_band_strict(a_out) ==
    IF a_out > 800000 THEN "A+"
    ELSE IF a_out > 400000 THEN "A"
    ELSE IF a_out > 100000 THEN "B"
    ELSE IF a_out > -100000 THEN "C"
    ELSE "D"

classify_band(a_out) ==
    IF a_out >= 800000 THEN "A+"
    ELSE IF a_out >= 400000 THEN "A"
    ELSE IF a_out >= 100000 THEN "B"
    ELSE IF a_out >= -100000 THEN "C"
    ELSE "D"

Max(a, b) == IF a >= b THEN a ELSE b

\* a source that applies the freeze penalty whatever the cadence
source_a_raw_noguard(dt_ms, tick_ms, a_stress, noise_unit) ==
    LET jitter == IF dt_ms <= 0 \/ tick_ms <= 0
                  THEN 0
                  ELSE DivFix(dt_ms - tick_ms, Max(tick_ms, 1))
        freeze == dt_ms * HALF_SCALE > (FREEZE_MULT \div HALF_SCALE) * tick_ms
        base == IF freeze
                THEN BASELINE_A + a_stress - FREEZE_PENALTY
                ELSE BASELINE_A + a_stress
    IN  base - MulFix(JITTER_GAIN, jitter) + MulFix(NOISE_AMPL, noise_unit)

\* rng_obj.uniform(-1.0, 1.0) is the argument noise_unit
source_a_raw(dt_ms, tick_ms, a_stress, noise_unit) ==
    LET jitter == IF dt_ms <= 0 \/ tick_ms <= 0
                  THEN 0
                  ELSE DivFix(dt_ms - tick_ms, Max(tick_ms, 1))
        jitter_term == -MulFix(JITTER_GAIN, jitter)
        \* dt_ms > FREEZE_MULT * tick_ms, both sides in units of 10^-3 ms
        freeze == tick_ms > 0
                  /\ dt_ms * HALF_SCALE > (FREEZE_MULT \div HALF_SCALE) * tick_ms
        base == IF freeze
                THEN BASELINE_A + a_stress - FREEZE_PENALTY
                ELSE BASELINE_A + a_stress
        noise_term == MulFix(NOISE_AMPL, noise_unit)
    IN  base + jitter_term + noise_term

-----------------------------------------------------------------------------
(* Text: str(), repr() and format specifications.                           *)

Digit(d) == SubSeq("0123456789", d + 1, d + 1)

RECURSIVE IntStr(_)
\* str(n) for an int n >= 0
IntStr(n) == IF n < 10 THEN Digit(n) ELSE IntStr(n \div 10) \o Digit(n % 10)

RECURSIVE Digits(_, _)
\* n as exactly w decimal digits, zero-padded
Digits(n, w) == IF w = 0 THEN "" ELSE Digits(n \div 10, w - 1) \o Digit(n % 10)

RECURSIVE StripZeros(_)
\* a fraction without its trailing zeros, one digit at least
StripZeros(s) ==
    IF Len(s) > 1 /\ SubSeq(s, Len(s), Len(s)) = "0"
    THEN StripZeros(SubSeq(s, 1, Len(s) - 1))
    ELSE s

\* f"{a:+.9f}" of a float a (desktop:416)
FormatAlign(a) ==
    (IF a < 0 THEN "-" ELSE "+")
    \o IntStr(Abs(a) \div SCALE) \o "." \o Digits(Abs(a) % SCALE, 6) \o "000"

\* repr() of a float a, as csv.writer writes it (no exponent for these sizes)
FloatRepr(a) ==
    (IF a < 0 THEN "-" ELSE "")
    \o IntStr(Abs(a) \div SCALE) \o "." \o StripZeros(Digits(Abs(a) % SCALE, 6))

\* datetime.now(timezone.utc).strftime("%Y-%m-%dT%H:%M:%SZ") at epoch ms
\* (desktop:125-127); the model's sessions stay within the first hour.
now_utc_iso(epoch_ms) ==
    LET sec == epoch_ms \div 1000
    IN  "1970-01-01T00:" \o Digits((sec \div 60) % 60, 2) \o ":"
        \o Digits(sec % 60, 2) \o "Z"

-----------------------------------------------------------------------------
(* The stamp chain (desktop:175-185, verify:18-28).                         *)

\* hashlib.sha256(b).hexdigest()
sha256_hexdigest(b) == "<" \o b \o ">"

\* a payload that leaves the band out
payload_of_noband(time_utc, final_align_str, band) ==
    time_utc \o "|" \o final_align_str

\* f"{time_utc}|{final_align_str}|{band}" (desktop:417, 516; verify:48)
payload_of(time_utc, final_align_str, band) ==
    time_utc \o "|" \o final_align_str \o "|" \o band

\* a stamp that does not cover the payload
make_stamp_nopayload(prev, payload_str, time_utc_str) ==
    sha256_hexdigest((IF prev = "" THEN "" ELSE prev) \o time_utc_str)

make_stamp(prev, payload_str, time_utc_str) ==
    LET h_payload == sha256_hexdigest(payload_str)
        prev_bytes == IF prev = "" THEN "" ELSE prev      \* (prev_stamp or "")
        raw == prev_bytes \o h_payload \o time_utc_str
    IN  sha256_hexdigest(raw)

-----------------------------------------------------------------------------
(* The desktop session (desktop:208-215, 321-538).                          *)

None == <<>>

\* nothing else is running or under test
InitAux ==
    /\ decay = DECAY_W
    /\ a_last = 0
    /\ hist = <<>>
    /\ clamped = <<>>
    /\ call = None
    /\ ret = None
    /\ max_ticks = 0
    /\ pc = "not started"
    /\ interrupted = FALSE

\* the desktop session before Start, no file written
InitSession ==
    /\ U = 0
    /\ W = 0
    /\ prev_stamp = ""
    /\ tick_index = 1
    /\ running = FALSE
    /\ rows = <<>>
    /\ last_tick_epoch = None
    /\ TICK_MS = 1000
    /\ lbl_status = "ready. press Start to begin symbolic time."
    /\ after_queue = 0
    /\ disk = None
    /\ edit = None
    /\ stdout = None

Init == InitSession /\ InitAux

\* The globals tick() works on, as they are when it is called
engine_now ==
    [U |-> U, W |-> W, prev_stamp |-> prev_stamp, tick_index |-> tick_index,
     rows |-> rows, last_tick_epoch |-> last_tick_epoch]

\* a reset that keeps the last stamp of the session before
reset_engine_keep_stamp ==
    [U |-> 0, W |-> 0, prev_stamp |-> prev_stamp, tick_index |-> 1,
     rows |-> <<>>, last_tick_epoch |-> None]

\* a reset that keeps counting ticks
reset_engine_keep_index ==
    [U |-> 0, W |-> 0, prev_stamp |-> "", tick_index |-> tick_index,
     rows |-> <<>>, last_tick_epoch |-> None]

\* a reset that keeps the accumulators U and W
reset_engine_keep_kernel ==
    [U |-> U, W |-> W, prev_stamp |-> "", tick_index |-> 1,
     rows |-> <<>>, last_tick_epoch |-> None]

\* reset_engine() (desktop:321-328): the globals it leaves
reset_engine ==
    [U |-> 0, W |-> 0, prev_stamp |-> "", tick_index |-> 1,
     rows |-> <<>>, last_tick_epoch |-> None]

\* a kernel that leaves the tanh out
kernel_step_notanh(decay_w, u, w, a_raw) ==
    LET U1 == MulFix(decay_w, u) + MulFix(W_DEFAULT, atanh_safe(clamp_a(a_raw)))
        W1 == MulFix(decay_w, w) + W_DEFAULT
    IN  [U |-> U1, W |-> W1, a_out |-> DivFix(U1, W1)]

\* a kernel that decays the weight of the current tick too
kernel_step_decay_all(decay_w, u, w, a_raw) ==
    LET U1 == MulFix(decay_w, u) + MulFix(W_DEFAULT, atanh_safe(clamp_a(a_raw)))
        W1 == MulFix(decay_w, w + W_DEFAULT)
    IN  [U |-> U1, W |-> W1, a_out |-> tanh(DivFix(U1, W1))]

\* a kernel that forgets the evidence of earlier ticks
kernel_step_last(decay_w, u, w, a_raw) ==
    LET U1 == MulFix(W_DEFAULT, atanh_safe(clamp_a(a_raw)))
        W1 == MulFix(decay_w, w) + W_DEFAULT
    IN  [U |-> U1, W |-> W1, a_out |-> tanh(DivFix(U1, W1))]

\* a kernel that does not accumulate the weights
kernel_step_unweighted(decay_w, u, w, a_raw) ==
    LET U1 == MulFix(decay_w, u) + MulFix(W_DEFAULT, atanh_safe(clamp_a(a_raw)))
        W1 == W_DEFAULT
    IN  [U |-> U1, W |-> W1, a_out |-> tanh(DivFix(U1, W1))]

\* Step 2 of tick(), the U/W kernel with exponential decay (desktop:402-410),
\* from the accumulators (u, w) and the raw alignment a_raw, with the value
\* decay_w of DECAY_W ("set to 1.0 to disable decay", desktop:54)
kernel_step_decay(decay_w, u, w, a_raw) ==
    LET a_c == clamp_a(a_raw)
        u_new == atanh_safe(a_c)
        U1 == MulFix(decay_w, u) + MulFix(W_DEFAULT, u_new)
        W1 == MulFix(decay_w, w) + W_DEFAULT
        \* denom = W if W > EPS_W else EPS_W, EPS_W = 1e-9 (desktop:45, 409):
        \* below the unit 10^-6, so W > EPS_W is W > 0, and U / EPS_W leaves
        \* tanh saturated at +-1 (0 for U = 0).
        a_out == IF W1 > 0 THEN tanh(DivFix(U1, W1))
                 ELSE IF U1 = 0 THEN 0 ELSE Sgn(U1) * SCALE
    IN  [U |-> U1, W |-> W1, a_out |-> a_out]

\* Step 2 of tick() as the program is configured
kernel_step(u, w, a_raw) == kernel_step_decay(DECAY_W, u, w, a_raw)

\* a row whose stamp also covers dt_ms
make_row_dt(idx, time_utc, a_out, prev, sel_ms, dt_ms, a_stress) ==
    LET band == classify_band(a_out)
        final_align_str == FormatAlign(a_out)
        payload_str == payload_of(time_utc, final_align_str, band) \o "|" \o IntStr(dt_ms)
        stamp == make_stamp(prev, payload_str, time_utc)
    IN  <<idx, time_utc, final_align_str, band, stamp, sel_ms, dt_ms, a_stress>>

\* Steps 3 to 5 of tick(): band, payload, stamp and the row (desktop:412-433)
make_row(idx, time_utc, a_out, prev, sel_ms, dt_ms, a_stress) ==
    LET band == classify_band(a_out)
        final_align_str == FormatAlign(a_out)
        payload_str == payload_of(time_utc, final_align_str, band)
        stamp == make_stamp(prev, payload_str, time_utc)
    IN  <<idx, time_utc, final_align_str, band, stamp, sel_ms, dt_ms, a_stress>>

\* The part of tick() that records a tick (desktop:384-457), run on the
\* globals g with q callbacks still scheduled.  Its reads of the environment
\* are the arguments: time.time(), tick_ms_var.get(), stress_var.get() and
\* the rng draw.
tick_record(g, q, now_epoch, sel_ms, a_stress, noise_unit) ==
    LET last == g.last_tick_epoch
        time_utc == now_utc_iso(now_epoch)
        dt_ms == IF last = None THEN sel_ms ELSE now_epoch - last[1]
        a_raw == source_a_raw(dt_ms, sel_ms, a_stress, noise_unit)
        k == kernel_step(g.U, g.W, a_raw)
        row == make_row(g.tick_index, time_utc, k.a_out, g.prev_stamp,
                        sel_ms, dt_ms, a_stress)
    IN  /\ TICK_MS' = sel_ms
        /\ last_tick_epoch' = <<now_epoch>>
        /\ U' = k.U
        /\ W' = k.W
        /\ prev_stamp' = row[5]
        /\ rows' = Append(g.rows, row)
        /\ lbl_status' = "running... ticks=" \o IntStr(g.tick_index)
        /\ tick_index' = g.tick_index + 1
        /\ after_queue' = q + 1

\* time.time() when a tick runs: any epoch at the first tick of a session,
\* later the last epoch plus the elapsed time.
Epochs(last) == IF last = None THEN EpochSet ELSE {last[1] + d : d \in DtSet}

\* a tick callback whose guard lets one more tick through
tick_one_more ==
    /\ after_queue > 0
    /\ UNCHANGED <<disk, edit, stdout>>
    /\ IF ~running
       THEN /\ after_queue' = after_queue - 1
            /\ UNCHANGED <<engine, running, lbl_status>>
       ELSE IF tick_index > AUTO_STOP_TICKS + 1
       THEN /\ running' = FALSE
            /\ lbl_status' = "auto-stop after " \o IntStr(AUTO_STOP_TICKS) \o " ticks."
            /\ after_queue' = after_queue - 1
            /\ UNCHANGED engine
       ELSE /\ UNCHANGED running
            /\ \E now_epoch \in Epochs(last_tick_epoch), sel_ms \in TickMsSet,
                  a_stress \in StressSet, noise_unit \in NoiseSet :
                  tick_record(engine_now, after_queue - 1,
                              now_epoch, sel_ms, a_stress, noise_unit)
    /\ UNCHANGED aux

\* a tick callback that does not look at the running flag
tick_after_stop ==
    /\ after_queue > 0
    /\ UNCHANGED <<disk, edit, stdout>>
    /\ IF running /\ tick_index > AUTO_STOP_TICKS
       THEN /\ running' = FALSE
            /\ lbl_status' = "auto-stop after " \o IntStr(AUTO_STOP_TICKS) \o " ticks."
            /\ after_queue' = after_queue - 1
            /\ UNCHANGED engine
       ELSE /\ tick_index <= AUTO_STOP_TICKS + 1
            /\ UNCHANGED running
            /\ \E now_epoch \in Epochs(last_tick_epoch), sel_ms \in TickMsSet,
                  a_stress \in StressSet, noise_unit \in NoiseSet :
                  tick_record(engine_now, after_queue - 1,
                              now_epoch, sel_ms, a_stress, noise_unit)
    /\ UNCHANGED aux

\* A scheduled tick callback runs (desktop:371-457).
tick ==
    /\ after_queue > 0
    /\ UNCHANGED <<disk, edit, stdout>>
    /\ IF ~running
       THEN /\ after_queue' = after_queue - 1
            /\ UNCHANGED <<engine, running, lbl_status>>
       ELSE IF tick_index > AUTO_STOP_TICKS
       THEN /\ running' = FALSE
            /\ lbl_status' = "auto-stop after " \o IntStr(AUTO_STOP_TICKS) \o " ticks."
            /\ after_queue' = after_queue - 1
            /\ UNCHANGED engine
       ELSE /\ UNCHANGED running
            /\ \E now_epoch \in Epochs(last_tick_epoch), sel_ms \in TickMsSet,
                  a_stress \in StressSet, noise_unit \in NoiseSet :
                  tick_record(engine_now, after_queue - 1,
                              now_epoch, sel_ms, a_stress, noise_unit)
    /\ UNCHANGED aux

\* a Start that restarts a session that is running
on_start_restart ==
    /\ UNCHANGED <<disk, edit, stdout>>
    /\ after_queue < MaxPending
    /\ running' = TRUE
    /\ \E now_epoch \in Epochs(reset_engine.last_tick_epoch),
          sel_ms \in TickMsSet, a_stress \in StressSet,
          noise_unit \in NoiseSet :
          tick_record(reset_engine, after_queue,
                      now_epoch, sel_ms, a_stress, noise_unit)
    /\ UNCHANGED aux

\* Start (desktop:459-466): reset_engine (desktop:321-332), then tick() called
\* directly on the reset state.
on_start ==
    /\ UNCHANGED <<disk, edit, stdout>>
    /\ IF running
       THEN UNCHANGED <<engine, running, lbl_status, after_queue>>
       ELSE /\ after_queue < MaxPending
            /\ running' = TRUE
            /\ \E now_epoch \in Epochs(reset_engine.last_tick_epoch),
                  sel_ms \in TickMsSet, a_stress \in StressSet,
                  noise_unit \in NoiseSet :
                  tick_record(reset_engine, after_queue,
                              now_epoch, sel_ms, a_stress, noise_unit)
    /\ UNCHANGED aux

\* a Stop that also drops the records
on_stop_clear ==
    /\ running' = FALSE
    /\ lbl_status' = "stopped."
    /\ rows' = <<>>
    /\ prev_stamp' = ""
    /\ tick_index' = 1
    /\ UNCHANGED <<U, W, last_tick_epoch, TICK_MS, after_queue, disk, edit, stdout>>
    /\ UNCHANGED aux

\* Stop (desktop:468-471)
on_stop ==
    /\ running' = FALSE
    /\ lbl_status' = "stopped."
    /\ UNCHANGED <<engine, after_queue, disk, edit, stdout>>
    /\ UNCHANGED aux

RECURSIVE verify_rows_last(_, _, _)
\* a verifier that goes on after a mismatch and reports the last one
verify_rows_last(rs, i, prev) ==
    IF i > Len(rs)
    THEN <<TRUE, Len(rs), "", "">>
    ELSE LET r == rs[i]
             expected == make_stamp(prev, payload_of(r[2], r[3], r[4]), r[2])
             rest == verify_rows_last(rs, i + 1, r[5])
         IN  IF expected # r[5] /\ rest[1]
             THEN <<FALSE, r[1], r[5], expected>>
             ELSE rest

\* verify_rows() on the record list rs (desktop:504-522): (ok, val, stored, expected)
RECURSIVE verify_rows_from(_, _, _)
verify_rows_from(rs, i, prev) ==
    IF i > Len(rs)
    THEN <<TRUE, Len(rs), "", "">>
    ELSE LET r == rs[i]
             payload_str == payload_of(r[2], r[3], r[4])
             expected == make_stamp(prev, payload_str, r[2])
         IN  IF expected # r[5]
             THEN <<FALSE, r[1], r[5], expected>>
             ELSE verify_rows_from(rs, i + 1, r[5])

verify_rows(rs) ==
    IF rs = <<>> THEN <<TRUE, 0, "", "">> ELSE verify_rows_from(rs, 1, "")

\* Verify Chain (desktop:524-538)
on_verify ==
    /\ lbl_status' = IF verify_rows(rows)[1]
                     THEN "ALL CHECKS PASSED."
                     ELSE "verification FAILED."
    /\ UNCHANGED <<engine, running, after_queue, disk, edit, stdout>>
    /\ UNCHANGED aux

-----------------------------------------------------------------------------
(* The exported record set (desktop:473-502).  A file is its lines, a line  *)
(* its cells; csv.writer quotes a cell and csv.DictReader unquotes it, so a *)
(* cell read is the cell written.                                           *)

CSV_HEADER ==
    <<"tick_index", "time_utc", "final_align", "band", "stamp",
      "tick_ms", "dt_ms", "a_stress">>

\* a writer that keeps six decimals of final_align
csv_row_short(r) ==
    <<IntStr(r[1]), r[2], SubSeq(r[3], 1, 9), r[4], r[5],
      IntStr(r[6]), IntStr(r[7]) \o ".0", FloatRepr(r[8])>>

\* writer.writerow(r): str() of the ints, repr() of the floats
csv_row(r) ==
    <<IntStr(r[1]), r[2], r[3], r[4], r[5],
      IntStr(r[6]), IntStr(r[7]) \o ".0", FloatRepr(r[8])>>

csv_lines(rs) == <<CSV_HEADER>> \o [i \in 1..Len(rs) |-> csv_row(rs[i])]

\* What on_export() can leave behind: the status line and the file.  With no
\* record it returns at once; when open() raises, no file is written.
export_outcomes ==
    IF rows = <<>>
    THEN {[status |-> lbl_status, file |-> disk]}
    ELSE {[status |-> "exported", file |-> <<csv_lines(rows)>>],
          [status |-> "export failed.", file |-> disk]}

\* an export that stops the session when it fails
on_export_app_stops ==
    /\ \E o \in export_outcomes :
          /\ lbl_status' = o.status
          /\ running' = (running /\ o.status # "export failed.")
    /\ UNCHANGED <<engine, after_queue, disk, edit, stdout>>
    /\ UNCHANGED aux

\* Export CSV, as the application sees it: the file is not followed
on_export_app ==
    /\ \E o \in export_outcomes : lbl_status' = o.status
    /\ UNCHANGED <<engine, running, after_queue, disk, edit, stdout>>
    /\ UNCHANGED aux

\* Export CSV, with the file it writes: a new file, not yet edited or verified
on_export ==
    /\ \E o \in export_outcomes :
          /\ lbl_status' = o.status
          /\ disk' = o.file
          /\ IF o.status = "exported"
             THEN edit' = None /\ stdout' = None
             ELSE UNCHANGED <<edit, stdout>>
    /\ UNCHANGED <<engine, running, after_queue>>
    /\ UNCHANGED aux

-----------------------------------------------------------------------------
(* The stand-alone verifier (verify:30-64) on the lines of a file.          *)

\* the position of the column called name, 0 when the header has none
Column(header, name) ==
    IF \E i \in 1..Len(header) : header[i] = name
    THEN CHOOSE i \in 1..Len(header) : header[i] = name
    ELSE 0

\* row[name] of csv.DictReader: a short line leaves the column None
Cell(header, line, name) ==
    IF Column(header, name) <= Len(line)
    THEN <<line[Column(header, name)]>>
    ELSE None

\* f"{v}" of a str or None
Fmt(v) == IF v = None THEN "None" ELSE v[1]

Report(result, tick_index_str, stored, expected, count) ==
    [result |-> result, tick_index |-> tick_index_str, stored |-> stored,
     expected |-> expected, count |-> count]

\* the columns verify_file reads, in the order it reads them (verify:42-46)
READ_COLUMNS == <<"tick_index", "time_utc", "final_align", "band", "stamp">>

RECURSIVE verify_file_from(_, _, _, _, _)
\* the loop of verify_file (verify:41-60) from line i on
verify_file_from(header, lines, i, prev, count) ==
    IF i > Len(lines)
    THEN Report("ALL CHECKS PASSED", "", "", "", count)
    ELSE IF lines[i] = <<>>
    THEN verify_file_from(header, lines, i + 1, prev, count)   \* DictReader skips it
    ELSE IF \E c \in 1..Len(READ_COLUMNS) : Column(header, READ_COLUMNS[c]) = 0
    THEN LET c == CHOOSE c \in 1..Len(READ_COLUMNS) :
                    /\ Column(header, READ_COLUMNS[c]) = 0
                    /\ \A d \in 1..(c - 1) : Column(header, READ_COLUMNS[d]) # 0
         IN  Report("KeyError", READ_COLUMNS[c], "", "", count)
    ELSE LET tick_index_str == Cell(header, lines[i], "tick_index")
             time_utc == Cell(header, lines[i], "time_utc")
             final_align_str == Cell(header, lines[i], "final_align")
             band == Cell(header, lines[i], "band")
             stored_stamp == Cell(header, lines[i], "stamp")
             payload_str == payload_of(Fmt(time_utc), Fmt(final_align_str), Fmt(band))
         IN  IF time_utc = None
             THEN \* make_stamp: None has no encode()
                  Report("AttributeError", Fmt(tick_index_str), "", "", count)
             ELSE LET expected_stamp == make_stamp(prev, payload_str, time_utc[1])
                  IN  IF <<expected_stamp>> # stored_stamp
                      THEN Report("VERIFICATION FAILED", Fmt(tick_index_str),
                                  Fmt(stored_stamp), expected_stamp, count)
                      ELSE verify_file_from(header, lines, i + 1,
                                            stored_stamp[1], count + 1)

\* a verifier that takes a file without records as a failure
verify_file_nonempty(f) ==
    IF f = None THEN Report("FileNotFoundError", "", "", "", 0)
    ELSE IF Len(f[1]) <= 1 THEN Report("VERIFICATION FAILED", "", "", "", 0)
    ELSE verify_file_from(f[1][1], Tail(f[1]), 1, "", 0)

\* verify_file(csv_path) on the file f (None: no such file)
verify_file(f) ==
    IF f = None THEN Report("FileNotFoundError", "", "", "", 0)
    ELSE IF f[1] = <<>> THEN Report("ALL CHECKS PASSED", "", "", "", 0)
    ELSE verify_file_from(f[1][1], Tail(f[1]), 1, "", 0)

\* python clockke_verify_v2_1.py <the exported file>
run_verify_file ==
    /\ disk # None
    /\ stdout' = <<verify_file(disk)>>
    /\ UNCHANGED <<engine, running, lbl_status, after_queue, disk, edit>>
    /\ UNCHANGED aux

-----------------------------------------------------------------------------
(* Edits of the exported file by whoever can write to it.  One edit is made *)
(* to an export; edit records it: the kind, the record and the column.      *)

AnEdit(kind, k, c) == <<[kind |-> kind, k |-> k, c |-> c]>>

\* the values an editor may put in column c: those the column holds in the
\* file, and values foreign to it
EditValues(c, lines) ==
    {lines[i][c] : i \in 2..Len(lines)}
    \cup (CASE c = 1 -> {"x"}
           [] c = 2 -> {now_utc_iso(59000)}
           [] c = 3 -> {FormatAlign(0)}
           [] c = 4 -> {"A+", "A", "B", "C", "D"}
           [] c = 5 -> {""}
           [] c = 6 -> {"500"}
           [] c = 7 -> {"0.0"}
           [] c = 8 -> {"0.05"})

\* record k's cell in column c is changed to another value
edit_cell ==
    /\ disk # None
    /\ edit = None
    /\ \E k \in 1..(Len(disk[1]) - 1), c \in 1..Len(CSV_HEADER) :
          \E v \in EditValues(c, disk[1]) :
             /\ v # disk[1][k + 1][c]
             /\ disk' = <<[disk[1] EXCEPT ![k + 1][c] = v]>>
             /\ edit' = AnEdit("cell", k, c)
    /\ stdout' = None
    /\ UNCHANGED <<engine, running, lbl_status, after_queue>>
    /\ UNCHANGED aux

\* record k's line loses its cells after the first n
edit_cut ==
    /\ disk # None
    /\ edit = None
    /\ \E k \in 1..(Len(disk[1]) - 1), n \in 0..(Len(CSV_HEADER) - 1) :
          /\ disk' = <<[disk[1] EXCEPT ![k + 1] = SubSeq(@, 1, n)]>>
          /\ edit' = AnEdit("cut", k, n + 1)
    /\ stdout' = None
    /\ UNCHANGED <<engine, running, lbl_status, after_queue>>
    /\ UNCHANGED aux

\* the header's column c is renamed
edit_header ==
    /\ disk # None
    /\ edit = None
    /\ \E c \in 1..Len(CSV_HEADER) :
          /\ disk' = <<[disk[1] EXCEPT ![1][c] = "x"]>>
          /\ edit' = AnEdit("header", 0, c)
    /\ stdout' = None
    /\ UNCHANGED <<engine, running, lbl_status, after_queue>>
    /\ UNCHANGED aux

\* the file loses its records after the first m
edit_trunc ==
    /\ disk # None
    /\ edit = None
    /\ \E m \in 0..(Len(disk[1]) - 2) :
          /\ disk' = <<SubSeq(disk[1], 1, m + 1)>>
          /\ edit' = AnEdit("trunc", m, 0)
    /\ stdout' = None
    /\ UNCHANGED <<engine, running, lbl_status, after_queue>>
    /\ UNCHANGED aux

-----------------------------------------------------------------------------
(* Specifications.                                                          *)

\* The desktop application: the buttons and the timer.  The file system is
\* outside this specification.
Next ==
    \/ on_start
    \/ on_stop
    \/ tick
    \/ on_export_app
    \/ on_verify

Spec == Init /\ [][Next]_vars

\* One recorded session, its export, and what happens to the file afterwards:
\* the session is over once the file is written.
NextFile ==
    \/ disk = None /\ on_start
    \/ disk = None /\ tick
    \/ on_export
    \/ edit_cell
    \/ edit_cut
    \/ edit_header
    \/ edit_trunc
    \/ run_verify_file

SpecFile == Init /\ [][NextFile]_vars

-----------------------------------------------------------------------------
(* Functions called on their own (SpecPure): a call is drawn with its       *)
(* arguments, and the function is applied to them.                          *)

\* arguments of classify_band: the values next to -1 and +1, the four
\* thresholds and their neighbours, in units of 10^-6
BandInputs ==
    {-999999, -100001, -100000, -99999, 0, 99999, 100000, 100001,
     399999, 400000, 400001, 799999, 800000, 800001, 999999}

BandCalls == {[fn |-> "classify_band", args |-> <<a>>] : a \in BandInputs}

\* A float that may be no number: Fin(v) is the number v, NaN is nan and
\* PosInf, NegInf are inf and -inf (IEEE 754, as Python's float has them).
Fin(v) == [k |-> "fin", v |-> v]

NaN == [k |-> "nan", v |-> 0]

PosInf == [k |-> "inf", v |-> 1]

NegInf == [k |-> "inf", v |-> -1]

IsFinite(x) == x.k = "fin"

\* x <= y: false when either is nan
FLe(x, y) ==
    IF x.k = "nan" \/ y.k = "nan" THEN FALSE
    ELSE IF x.k = "fin" /\ y.k = "fin" THEN x.v <= y.v
    ELSE IF x.k = "inf" /\ y.k = "inf" THEN x.v <= y.v
    ELSE IF x.k = "inf" THEN x.v < 0
    ELSE y.v > 0

\* x > y: false when either is nan
FGt(x, y) == x.k # "nan" /\ y.k # "nan" /\ ~FLe(x, y)

FLt(x, y) == FGt(y, x)

FNeg(x) == IF x.k = "nan" THEN NaN ELSE [k |-> x.k, v |-> -x.v]

\* x + y: inf + -inf is nan
FAdd(x, y) ==
    IF x.k = "nan" \/ y.k = "nan" THEN NaN
    ELSE IF x.k = "fin" /\ y.k = "fin" THEN Fin(x.v + y.v)
    ELSE IF x.k = "inf" /\ y.k = "inf" THEN (IF x.v = y.v THEN x ELSE NaN)
    ELSE IF x.k = "inf" THEN x
    ELSE y

FSub(x, y) == FAdd(x, FNeg(y))

\* x * y: inf * 0 is nan
FMul(x, y) ==
    IF x.k = "nan" \/ y.k = "nan" THEN NaN
    ELSE IF x.k = "fin" /\ y.k = "fin" THEN Fin(MulFix(x.v, y.v))
    ELSE IF x.v = 0 \/ y.v = 0 THEN NaN
    ELSE [k |-> "inf", v |-> Sgn(x.v) * Sgn(y.v)]

\* x / y for a number y # 0
FDiv(x, y) ==
    IF x.k = "nan" THEN NaN
    ELSE IF x.k = "fin" THEN Fin(DivFix(x.v, y.v))
    ELSE [k |-> "inf", v |-> x.v * Sgn(y.v)]

\* x in units n times smaller
FScale(x, n) == IF x.k = "fin" THEN Fin(x.v * n) ELSE x

\* jitter of source_a_raw (desktop:154-158) for any float dt_ms
source_jitter(dt_ms, tick_ms) ==
    IF FLe(dt_ms, Fin(0)) \/ tick_ms <= 0
    THEN Fin(0)
    ELSE FDiv(FSub(dt_ms, Fin(tick_ms)), Fin(Max(tick_ms, 1)))

\* source_a_raw (desktop:133-173) for any float dt_ms
source_a_raw_ieee(dt_ms, tick_ms, a_stress, noise_unit) ==
    LET jitter == source_jitter(dt_ms, tick_ms)
        jitter_term == FNeg(FMul(Fin(JITTER_GAIN), jitter))
        freeze == tick_ms > 0
                  /\ FGt(FScale(dt_ms, HALF_SCALE),
                         Fin((FREEZE_MULT \div HALF_SCALE) * tick_ms))
        base == IF freeze
                THEN BASELINE_A + a_stress - FREEZE_PENALTY
                ELSE BASELINE_A + a_stress
        noise_term == MulFix(NOISE_AMPL, noise_unit)
    IN  FAdd(FAdd(Fin(base), jitter_term), Fin(noise_term))

\* clamp_a (desktop:89-97) for any float: nan passes both comparisons
clamp_a_ieee(a) ==
    LET lo == -SCALE + EPS_A
        hi == SCALE - EPS_A
    IN  IF FLt(a, Fin(lo)) THEN Fin(lo)
        ELSE IF FGt(a, Fin(hi)) THEN Fin(hi)
        ELSE a

\* Step 2 of tick() (desktop:402-410) from the numbers (u, w) for any float
\* a_raw: math.log1p and math.tanh return nan for nan, nan spreads through
\* + and *.
kernel_step_ieee(u, w, a_raw) ==
    LET a_c == clamp_a_ieee(a_raw)
    IN  IF a_c.k = "nan"
        THEN [U |-> NaN, W |-> Fin(MulFix(DECAY_W, w) + W_DEFAULT), a_out |-> NaN]
        ELSE LET k == kernel_step(u, w, a_c.v)
             IN  [U |-> Fin(k.U), W |-> Fin(k.W), a_out |-> Fin(k.a_out)]

\* dt_ms given to source_a_raw: ms, among them zero, a negative value, the
\* freeze threshold of 1000 ms and its neighbour, and the values that are no
\* numbers
SourceDt == {Fin(d) : d \in {-500, 0, 250, 1000, 1500, 1501, 2000, 4000}}
            \cup {NaN, PosInf, NegInf}

\* tick_ms given to source_a_raw (ms)
SourceTickMs == {-1000, 0, 250, 1000, 2000}

\* a_stress given to source_a_raw: STRESS_MIN, 0, STRESS_MAX (desktop:64-66)
SourceStress == {-50000, 0, 50000}

\* the draw rng_obj.uniform(-1.0, 1.0)
SourceNoise == {-1000000, 0, 1000000}

\* steps 1 and 2 of tick() (desktop:397-410) on the session-start U and W
TickCalls ==
    {[fn |-> "tick_steps_1_2", args |-> <<dt, t, st, n>>] :
        dt \in SourceDt, t \in SourceTickMs, st \in SourceStress, n \in SourceNoise}

\* A float with more decimal places than final_align keeps: Dec(neg, n, f)
\* is the number (n + f/10) * 10^-9, negative when neg, so n counts the
\* ninth decimal place and f is the tenth digit.
NANO == SCALE * 1000

Dec(neg, n, f) == [neg |-> neg, n |-> n, f |-> f]

\* x >= t * 10^-9
DecGe(x, t) ==
    IF x.neg THEN x.n < -t \/ (x.n = -t /\ x.f = 0) ELSE x.n >= t

\* classify_band(a_out) (desktop:106-123) on such a float
classify_band_dec(a_out) ==
    IF DecGe(a_out, 800 * SCALE) THEN "A+"
    ELSE IF DecGe(a_out, 400 * SCALE) THEN "A"
    ELSE IF DecGe(a_out, 100 * SCALE) THEN "B"
    ELSE IF DecGe(a_out, -100 * SCALE) THEN "C"
    ELSE "D"

\* f"{a_out:+.9f}" (desktop:416): the sign, and the magnitude rounded to
\* nine decimal places, a tie to the even digit
FormatAlignDec(x) ==
    LET r == IF x.f > 5 \/ (x.f = 5 /\ x.n % 2 = 1) THEN x.n + 1 ELSE x.n
    IN  (IF x.neg THEN "-" ELSE "+")
        \o IntStr(r \div NANO) \o "." \o Digits(r % NANO, 9)

DigitOf(c) == CHOOSE d \in 0..9 : Digit(d) = c

RECURSIVE ParseDigits(_, _)
\* the number a string of digits and one point writes, without the point
ParseDigits(s, acc) ==
    IF s = "" THEN acc
    ELSE IF SubSeq(s, 1, 1) = "." THEN ParseDigits(SubSeq(s, 2, Len(s)), acc)
    ELSE ParseDigits(SubSeq(s, 2, Len(s)), acc * 10 + DigitOf(SubSeq(s, 1, 1)))

\* float(s) of a final_align string s: a sign, digits, a point, nine digits
float_of_align(s) ==
    Dec(SubSeq(s, 1, 1) = "-", ParseDigits(SubSeq(s, 2, Len(s)), 0), 0)

\* values of a_out a tick can give: a_raw stays below 0.02 + 0.05 + 0.15 +
\* 0.01 (jitter > -1) and has no lower limit but the clamp, so the
\* thresholds met are 0.10 and -0.10.  The values are the thresholds, the
\* values around them to the tenth decimal place, and values away from them.
AlignInputs ==
    {Dec(neg, t * SCALE + d, f) :
        neg \in BOOLEAN, t \in {0, 100, 200}, d \in {-1, 0}, f \in {0, 3, 7}}
    \ {Dec(neg, -1, f) : neg \in BOOLEAN, f \in {0, 3, 7}}

\* steps 3 and 4 of tick() (desktop:412-417) on a value of a_out
RowCalls == {[fn |-> "tick_steps_3_4", args |-> <<a>>] : a \in AlignInputs}

Calls == BandCalls \cup TickCalls \cup RowCalls

InitPure ==
    /\ InitSession
    /\ decay = DECAY_W
    /\ a_last = 0
    /\ hist = <<>>
    /\ clamped = <<>>
    /\ call \in {<<c>> : c \in Calls}
    /\ ret = None
    /\ max_ticks = 0
    /\ pc = "not started"
    /\ interrupted = FALSE

\* classify_band(a_out) (desktop:106-123)
call_classify_band ==
    /\ call[1].fn = "classify_band"
    /\ ret = None
    /\ ret' = <<classify_band(call[1].args[1])>>
    /\ UNCHANGED <<session, decay, a_last, hist, clamped, call, max_ticks, pc, interrupted>>

\* a_raw = source_a_raw(...) and the kernel step on it (desktop:397-410)
call_tick_steps_1_2 ==
    /\ call[1].fn = "tick_steps_1_2"
    /\ ret = None
    /\ LET dt_ms == call[1].args[1]
           tick_ms == call[1].args[2]
           a_raw == source_a_raw_ieee(dt_ms, tick_ms, call[1].args[3], call[1].args[4])
           k == kernel_step_ieee(reset_engine.U, reset_engine.W, a_raw)
       IN  ret' = <<[jitter |-> source_jitter(dt_ms, tick_ms), a_raw |-> a_raw,
                     U |-> k.U, W |-> k.W, a_out |-> k.a_out]>>
    /\ UNCHANGED <<session, decay, a_last, hist, clamped, call, max_ticks, pc, interrupted>>

\* band = classify_band(a_out) and final_align_str (desktop:412-416)
call_tick_steps_3_4 ==
    /\ call[1].fn = "tick_steps_3_4"
    /\ ret = None
    /\ ret' = <<[band |-> classify_band_dec(call[1].args[1]),
                 final_align |-> FormatAlignDec(call[1].args[1])]>>
    /\ UNCHANGED <<session, decay, a_last, hist, clamped, call, max_ticks, pc, interrupted>>

NextPure == call_classify_band \/ call_tick_steps_1_2 \/ call_tick_steps_3_4

SpecPure == InitPure /\ [][NextPure]_vars

-----------------------------------------------------------------------------
(* The kernel on its own (SpecKernel): step 2 of tick() fed raw alignments  *)
(* of any magnitude, with decay as configured or disabled.                  *)

\* ticks the kernel under test runs
MaxKernelTicks == 3

\* a_raw, in units of 10^-6: inside and far outside (-1, +1)
RawSet == {-5000000, -400000, 0, 150000, 700000, 5000000}

\* DECAY_W = 0.995, or 1.0 to disable decay (desktop:54)
DecaySet == {DECAY_W, SCALE}

InitKernel ==
    /\ InitSession
    /\ decay \in DecaySet
    /\ a_last = 0
    /\ hist = <<>>
    /\ clamped = <<>>
    /\ call = None
    /\ ret = None
    /\ max_ticks = 0
    /\ pc = "not started"
    /\ interrupted = FALSE

\* desktop:402-410 on the raw alignment a_raw
kernel_tick ==
    /\ Len(hist) < MaxKernelTicks
    /\ \E a_raw \in RawSet :
          LET k == kernel_step_decay(decay, U, W, a_raw)
          IN  /\ U' = k.U
              /\ W' = k.W
              /\ a_last' = k.a_out
              /\ hist' = Append(hist, atanh_safe(clamp_a(a_raw)))
              /\ clamped' = Append(clamped, clamp_a(a_raw))
    /\ UNCHANGED <<prev_stamp, tick_index, running, rows, last_tick_epoch, TICK_MS,
                   lbl_status, after_queue, disk, edit, stdout,
                   decay, call, ret, max_ticks, pc, interrupted>>

NextKernel == kernel_tick

SpecKernel == InitKernel /\ [][NextKernel]_vars

-----------------------------------------------------------------------------
(* The command-line runner (run:194-329), SpecCli.  Its locals U, W,        *)
(* prev_stamp, tick_index, rows and last_tick_epoch are the variables of    *)
(* the same names, its tick_ms is TICK_MS, its file is disk.  clamp_a,      *)
(* atanh_safe, classify_band, now_utc_iso and make_stamp of the runner      *)
(* (run:71-109, 156-166) are the text of the desktop's.                     *)

\* the largest --ticks given, and the ticks an endless run (--ticks 0) is
\* followed for
MaxCliTicks == 3

\* a runner's source that applies no freeze penalty
cli_source_a_raw_nofreeze(dt_ms, tick_ms, noise_unit) ==
    LET jitter == IF dt_ms <= 0 \/ tick_ms <= 0
                  THEN 0
                  ELSE DivFix(dt_ms - tick_ms, Max(tick_ms, 1))
    IN  BASELINE_A - MulFix(JITTER_GAIN, jitter) + MulFix(NOISE_AMPL, noise_unit)

\* source_a_raw of the runner (run:115-154): no a_stress
cli_source_a_raw(dt_ms, tick_ms, noise_unit) ==
    LET jitter == IF dt_ms <= 0 \/ tick_ms <= 0
                  THEN 0
                  ELSE DivFix(dt_ms - tick_ms, Max(tick_ms, 1))
        base0 == BASELINE_A
        jitter_term == -MulFix(JITTER_GAIN, jitter)
        freeze == tick_ms > 0
                  /\ dt_ms * HALF_SCALE > (FREEZE_MULT \div HALF_SCALE) * tick_ms
        base == IF freeze THEN base0 - FREEZE_PENALTY ELSE base0
        noise_term == MulFix(NOISE_AMPL, noise_unit)
    IN  base + jitter_term + noise_term

\* writer.writerow(r) of the runner (run:325-326): tick_ms and dt_ms are
\* floats, a_stress is 0.0
cli_csv_row(r) ==
    <<IntStr(r[1]), r[2], r[3], r[4], r[5],
      IntStr(r[6]) \o ".0", IntStr(r[7]) \o ".0", FloatRepr(r[8])>>

cli_csv_lines(rs) == <<CSV_HEADER>> \o [i \in 1..Len(rs) |-> cli_csv_row(rs[i])]

\* main() (run:335-360): max_ticks = max(args.ticks, 0); the locals of
\* run_clockke_cli before its loop (run:200-208)
InitCli ==
    /\ InitSession
    /\ decay = DECAY_W
    /\ a_last = 0
    /\ hist = <<>>
    /\ clamped = <<>>
    /\ call = None
    /\ ret = None
    /\ max_ticks \in 0..MaxCliTicks
    /\ pc = "loop"
    /\ interrupted = FALSE

\* a loop pass that stops only after one record more than max_ticks
cli_tick_late_stop ==
    /\ pc = "loop"
    /\ tick_index <= MaxCliTicks + 1
    /\ \E now_epoch \in Epochs(last_tick_epoch), noise_unit \in NoiseSet :
          LET time_utc == now_utc_iso(now_epoch)
              dt_ms == IF last_tick_epoch = None THEN TICK_MS
                       ELSE now_epoch - last_tick_epoch[1]
              k == kernel_step(U, W, cli_source_a_raw(dt_ms, TICK_MS, noise_unit))
              row == make_row(tick_index, time_utc, k.a_out, prev_stamp, TICK_MS, dt_ms, 0)
          IN  /\ last_tick_epoch' = <<now_epoch>>
              /\ U' = k.U
              /\ W' = k.W
              /\ prev_stamp' = row[5]
              /\ rows' = Append(rows, row)
    /\ IF max_ticks > 0 /\ tick_index > max_ticks
       THEN pc' = "export" /\ tick_index' = tick_index
       ELSE pc' = "loop" /\ tick_index' = tick_index + 1
    /\ UNCHANGED <<running, TICK_MS, lbl_status, after_queue, disk, edit, stdout,
                   decay, a_last, hist, clamped, call, ret, max_ticks, interrupted>>

\* One pass of the loop (run:226-297): a record, then the stopping condition
\* or the increment; the sleep ends the pass.
cli_tick ==
    /\ pc = "loop"
    /\ tick_index <= MaxCliTicks
    /\ \E now_epoch \in Epochs(last_tick_epoch), noise_unit \in NoiseSet :
          LET time_utc == now_utc_iso(now_epoch)
              tick_ms == TICK_MS
              dt_ms == IF last_tick_epoch = None THEN tick_ms
                       ELSE now_epoch - last_tick_epoch[1]
              a_raw == cli_source_a_raw(dt_ms, tick_ms, noise_unit)
              a_c == clamp_a(a_raw)
              u == atanh_safe(a_c)
              U1 == MulFix(DECAY_W, U) + MulFix(W_DEFAULT, u)
              W1 == MulFix(DECAY_W, W) + W_DEFAULT
              \* denom = W if W > EPS_W else EPS_W: W1 >= W_DEFAULT > EPS_W
              cli_a_out == tanh(DivFix(U1, W1))
              band == classify_band(cli_a_out)
              final_align_str == FormatAlign(cli_a_out)
              payload_str == payload_of(time_utc, final_align_str, band)
              stamp == make_stamp(prev_stamp, payload_str, time_utc)
          IN  /\ last_tick_epoch' = <<now_epoch>>
              /\ U' = U1
              /\ W' = W1
              /\ prev_stamp' = stamp
              /\ rows' = Append(rows, <<tick_index, time_utc, final_align_str, band,
                                        stamp, tick_ms, dt_ms, 0>>)
    /\ IF max_ticks > 0 /\ tick_index >= max_ticks
       THEN pc' = "export" /\ tick_index' = tick_index
       ELSE pc' = "loop" /\ tick_index' = tick_index + 1
    /\ UNCHANGED <<running, TICK_MS, lbl_status, after_queue, disk, edit, stdout,
                   decay, a_last, hist, clamped, call, ret, max_ticks, interrupted>>

\* Ctrl+C (run:299-300), between two passes of the loop or in the sleep
cli_interrupt ==
    /\ pc = "loop"
    /\ pc' = "export"
    /\ interrupted' = TRUE
    /\ UNCHANGED <<session, decay, a_last, hist, clamped, call, ret, max_ticks>>

\* Export CSV (run:303-329); pc becomes what the runner prints last
cli_export ==
    /\ pc = "export"
    /\ IF rows = <<>>
       THEN pc' = "nothing to export" /\ UNCHANGED disk
       ELSE \/ pc' = "exported" /\ disk' = <<cli_csv_lines(rows)>>
            \/ pc' = "export failed" /\ UNCHANGED disk
    /\ UNCHANGED <<engine, running, lbl_status, after_queue, edit, stdout,
                   decay, a_last, hist, clamped, call, ret, max_ticks, interrupted>>

NextCli == cli_tick \/ cli_interrupt \/ cli_export

SpecCli == InitCli /\ [][NextCli]_vars

\* a pass of the loop can be taken
cli_tick_enabled == pc = "loop" /\ tick_index <= MaxCliTicks

\* The runner's statements follow one another and its sleep ends: weak
\* fairness of cli_export and of cli_tick, the latter with
\* ENABLED <<cli_tick>>_vars written as cli_tick_enabled.
SpecCliFair ==
    /\ SpecCli
    /\ WF_vars(cli_export)
    /\ ([]<>(~cli_tick_enabled) \/ []<><<cli_tick>>_vars)

-----------------------------------------------------------------------------
(* Properties.                                                              *)

\* the records of the file on disk: its lines after the header
FileRecords == Tail(disk[1])

\* the one edit made to the file changed a cell in one of the columns cs
CellEdit(cs) == disk # None /\ edit # None /\ edit[1].kind = "cell" /\ edit[1].c \in cs

\* the stamp the chain rule gives record k of recs from the stored stamp before it
Recomputed(recs, k) ==
    make_stamp(IF k = 1 THEN "" ELSE recs[k - 1][5],
               payload_of(recs[k][2], recs[k][3], recs[k][4]), recs[k][2])

Mismatch(recs, k) == recs[k][5] # Recomputed(recs, k)

\* C1: in a valid chain, changing the final_align, the band or the time_utc
\* of record k alone makes verify_file and verify_rows fail, and the failure
\* is reported at record k's tick_index after the k - 1 records before it
\* were accepted.
C1_TamperDetectedAtRecord ==
    CellEdit({2, 3, 4}) =>
        LET k == edit[1].k
            res == verify_file(disk)
            mem == verify_rows(FileRecords)
        IN  /\ res.result = "VERIFICATION FAILED"
            /\ res.tick_index = FileRecords[k][1]
            /\ res.count = k - 1
            /\ mem[1] = FALSE
            /\ mem[2] = FileRecords[k][1]

\* a three-record file whose second record's band was changed, verified
C1_Witness ==
    /\ CellEdit({4})
    /\ edit[1].k = 2
    /\ Len(FileRecords) = 3
    /\ stdout # None
    /\ stdout[1].result = "VERIFICATION FAILED"
    /\ stdout[1].tick_index = "2"

\* C2: the in-memory record list is always a valid chain: every record's
\* stamp is make_stamp of the stamp before it ("" for the first), its payload
\* and its time_utc, and verify_rows succeeds with the number of records.
C2_RowsAreValidChain ==
    /\ \A k \in 1..Len(rows) : ~Mismatch(rows, k)
    /\ verify_rows(rows) = <<TRUE, Len(rows), "", "">>

\* a second session (an older callback is still scheduled) verified with two records
C2_Witness ==
    /\ Len(rows) = 2
    /\ after_queue = 2
    /\ lbl_status = "ALL CHECKS PASSED."

\* C3: verification halts at the first mismatch: the verifier reports the
\* first record whose stored stamp differs from the recomputed one, with its
\* tick_index, stored and expected stamp, and reports the same whatever
\* follows that record.
C3_HaltsAtFirstMismatch ==
    (disk # None /\ (edit = None \/ edit[1].kind = "cell")) =>
        LET recs == FileRecords
            bad == {k \in 1..Len(recs) : Mismatch(recs, k)}
        IN  bad # {} =>
            LET k == CHOOSE k \in bad : \A j \in bad : k <= j
                upto == SubSeq(disk[1], 1, k + 1)
                other == upto \o [j \in 1..(Len(recs) - k) |-> CSV_HEADER]
            IN  /\ verify_file(disk) =
                       Report("VERIFICATION FAILED", recs[k][1], recs[k][5],
                              Recomputed(recs, k), k - 1)
                /\ verify_file(<<upto>>) = verify_file(disk)
                /\ verify_file(<<other>>) = verify_file(disk)
                /\ verify_rows(recs) =
                       <<FALSE, recs[k][1], recs[k][5], Recomputed(recs, k)>>
                /\ verify_rows(Tail(upto)) = verify_rows(recs)
                /\ verify_rows(Tail(other)) = verify_rows(recs)

\* the first record's stamp was changed: records 1 and 2 both mismatch, and
\* the verifier reported record 1
C3_Witness ==
    /\ CellEdit({5})
    /\ edit[1].k = 1
    /\ Len(FileRecords) >= 2
    /\ Mismatch(FileRecords, 2)
    /\ stdout # None
    /\ stdout[1].result = "VERIFICATION FAILED"
    /\ stdout[1].tick_index = "1"

\* C4 as claimed: changing any stored field of one record of a valid chain
\* makes verification fail.
C4_AnyFieldEditDetected ==
    CellEdit(1..8) => verify_file(disk).result # "ALL CHECKS PASSED"

\* C4 amended: changing the time_utc, final_align, band or stamp of one
\* record makes verification fail at that record; changing its tick_index,
\* tick_ms, dt_ms or a_stress is not detected, verification passes with every
\* record counted.
C4_ChainedFieldEditDetected ==
    CellEdit(1..8) =>
        LET k == edit[1].k
            res == verify_file(disk)
        IN  IF edit[1].c \in {2, 3, 4, 5}
            THEN /\ res.result = "VERIFICATION FAILED"
                 /\ res.tick_index = FileRecords[k][1]
                 /\ res.count = k - 1
            ELSE /\ res.result = "ALL CHECKS PASSED"
                 /\ res.count = Len(FileRecords)

\* the last record's stamp was changed and the verifier reported it
C4_Witness ==
    /\ CellEdit({5})
    /\ edit[1].k = Len(FileRecords)
    /\ edit[1].k >= 2
    /\ stdout # None
    /\ stdout[1].result = "VERIFICATION FAILED"
    /\ stdout[1].count = edit[1].k - 1

\* C5: the i-th record of the list has tick_index i, and tick_index is the
\* index of the next record, also after a restart.
C5_TickIndexCounts ==
    /\ \A i \in 1..Len(rows) : rows[i][1] = i
    /\ tick_index = Len(rows) + 1

\* a restarted session (an older callback is still scheduled) with two records
C5_Witness ==
    /\ after_queue = 2
    /\ running
    /\ Len(rows) = 2
    /\ rows[2][1] = 2

\* the state the first tick of a session leaves when it starts from the
\* session-start values U = 0, W = 0, prev_stamp = "", tick_index = 1, no
\* record, last_tick_epoch unset
FirstTickLeaves(now_epoch, sel_ms, a_stress, noise_unit) ==
    LET u1 == atanh_safe(clamp_a(source_a_raw(sel_ms, sel_ms, a_stress, noise_unit)))
        a_out == tanh(DivFix(u1, W_DEFAULT))
        time_utc == now_utc_iso(now_epoch)
        final_align_str == FormatAlign(a_out)
        band == classify_band(a_out)
        stamp == make_stamp("", payload_of(time_utc, final_align_str, band), time_utc)
    IN  [U |-> u1, W |-> W_DEFAULT, prev_stamp |-> stamp, tick_index |-> 2,
         rows |-> << <<1, time_utc, final_align_str, band, stamp,
                       sel_ms, sel_ms, a_stress>> >>,
         last_tick_epoch |-> <<now_epoch>>]

\* C6: Start resets the engine whatever happened before: the step that sets
\* running leaves exactly what one tick leaves from the session-start values.
C6_StartResetsEngine ==
    [][(~running /\ running') =>
          \E now_epoch \in EpochSet, sel_ms \in TickMsSet,
             a_stress \in StressSet, noise_unit \in NoiseSet :
             engine_now' = FirstTickLeaves(now_epoch, sel_ms, a_stress, noise_unit)]_vars

\* a session just restarted: one record, and a callback of the session
\* before it still scheduled
C6_Witness ==
    /\ running
    /\ after_queue = 2
    /\ Len(rows) = 1
    /\ tick_index = 2

\* C7: the record list is append-only within a session: a step leaves it
\* unchanged or appends one record; only Start (the reset) replaces it.
C7_RowsAppendOnly ==
    [][\/ rows' = rows
       \/ /\ Len(rows') = Len(rows) + 1
          /\ SubSeq(rows', 1, Len(rows)) = rows
       \/ /\ ~running
          /\ running'
          /\ Len(rows') = 1]_vars

\* a stopped session that still holds its records
C7_Witness ==
    /\ ~running
    /\ lbl_status = "stopped."
    /\ Len(rows) >= 2

\* C8: a step that sets the status of an export or of a verification
\* leaves U, W, prev_stamp, tick_index, the record list, the running flag and
\* the scheduled callbacks unchanged.
C8_ExportVerifyReadOnly ==
    [][(lbl_status' # lbl_status
        /\ lbl_status' \in {"exported", "export failed.",
                            "ALL CHECKS PASSED.", "verification FAILED."})
          => UNCHANGED <<U, W, prev_stamp, tick_index, rows, running, after_queue>>]_vars

\* a running session with its callback scheduled, after an export failed
C8_Witness ==
    /\ lbl_status = "export failed."
    /\ running
    /\ after_queue > 0
    /\ Len(rows) >= 2

\* a record of the file is malformed: its line lacks cells, its tick_index
\* is no number, or (the header renamed) it lacks a column
Malformed ==
    /\ disk # None
    /\ edit # None
    /\ Len(FileRecords) > 0
    /\ \/ edit[1].kind = "cut" /\ edit[1].c > 1
       \/ edit[1].kind = "header"
       \/ edit[1].kind = "cell" /\ edit[1].c = 1 /\ FileRecords[edit[1].k][1] = "x"

\* C9 as claimed: a malformed record is reported neither as a chain mismatch
\* nor as a pass.
C9_MalformedDistinguished ==
    Malformed => verify_file(disk).result \notin {"VERIFICATION FAILED", "ALL CHECKS PASSED"}

RECURSIVE StampsOf(_)
\* the stamps of a chain over the (time_utc, final_align, band) triples ts,
\* started from the empty prev_stamp
StampsOf(ts) ==
    IF ts = <<>> THEN <<>>
    ELSE LET n == Len(ts)
             before == StampsOf(SubSeq(ts, 1, n - 1))
             prev == IF n = 1 THEN "" ELSE before[n - 1]
         IN  Append(before, make_stamp(prev, payload_of(ts[n][1], ts[n][2], ts[n][3]),
                                       ts[n][1]))

\* C10: the stamps of a session are a function of its (time_utc, final_align,
\* band) triples alone: any run that records the same triples from the empty
\* prev_stamp records the same stamps.
C10_StampsDependOnTriplesOnly ==
    [i \in 1..Len(rows) |-> rows[i][5]]
        = StampsOf([i \in 1..Len(rows) |-> <<rows[i][2], rows[i][3], rows[i][4]>>])

\* a second session with three records, two of them of the same second
C10_Witness ==
    /\ Len(rows) = 3
    /\ after_queue = 2
    /\ rows[2][2] = rows[1][2]
    /\ rows[2][5] # rows[1][5]
\* the bands as the specification lists them: name, lowest value, first
\* value above
BandTable ==
    << <<"A+", 800000, SCALE>>, <<"A", 400000, 800000>>, <<"B", 100000, 400000>>,
       <<"C", -100000, 100000>>, <<"D", -SCALE, -100000>> >>

TickCallOfNumbers ==
    /\ call # None
    /\ call[1].fn = "tick_steps_1_2"
    /\ IsFinite(call[1].args[1])
    /\ ret # None

\* BASELINE_A + a_stress - JITTER_GAIN * jitter + NOISE_AMPL * u in whole
\* units of 10^-6, less FREEZE_PENALTY when freeze
SourceFormula(dt_ms, tick_ms, a_stress, u, freeze) ==
    BASELINE_A + a_stress
    - (IF dt_ms <= 0 \/ tick_ms <= 0 THEN 0
       ELSE RoundDiv(JITTER_GAIN * (dt_ms - tick_ms), Max(tick_ms, 1)))
    + RoundDiv(NOISE_AMPL * (u \div HALF_SCALE), HALF_SCALE)
    - (IF freeze THEN FREEZE_PENALTY ELSE 0)

\* dt_ms > FREEZE_MULT * tick_ms
Late(dt_ms, tick_ms) == dt_ms * HALF_SCALE > (FREEZE_MULT \div HALF_SCALE) * tick_ms

C16_DegenerateInputHarmless ==
    (/\ call # None
     /\ call[1].fn = "tick_steps_1_2"
     /\ ret # None
     /\ (call[1].args[2] <= 0 \/ ~IsFinite(call[1].args[1]))) =>
        /\ ret[1].jitter = Fin(0)
        /\ IsFinite(ret[1].a_raw)
        /\ IsFinite(ret[1].U)
        /\ IsFinite(ret[1].W)
        /\ IsFinite(ret[1].a_out)
\* C12: a_out is strictly inside (-1, +1) after every tick, whatever the
\* magnitude of the raw inputs and whatever ticks came before, and the
\* final_align text written for it has the integer part 0.
C12_OutputStrictlyInside ==
    Len(hist) >= 1 =>
        /\ -SCALE < a_last
        /\ a_last < SCALE
        /\ SubSeq(FormatAlign(a_last), 2, 3) = "0."

\* three ticks, every one with the raw alignment 5.0
C12_Witness ==
    /\ Len(hist) = MaxKernelTicks
    /\ \A i \in 1..Len(hist) : hist[i] = atanh_safe(SCALE - EPS_A)
    /\ a_last > 999990

RECURSIVE PowFix(_, _)
\* d to the power i
PowFix(d, i) == IF i = 0 THEN SCALE ELSE MulFix(d, PowFix(d, i - 1))

RECURSIVE DecayedWeights(_, _)
\* sum over i in 0..k-1 of d^i * weight
DecayedWeights(d, k) ==
    IF k = 0 THEN 0
    ELSE DecayedWeights(d, k - 1) + MulFix(PowFix(d, k - 1), W_DEFAULT)

\* C13: after the k-th tick W is the decayed sum of the weights, sum over i
\* in 0..k-1 of decay^i * weight (to the rounding of k operations), so W is
\* at least one weight, above zero, and the division U / W is defined.
C13_WeightIsDecayedSum ==
    LET k == Len(hist)
    IN  k >= 1 =>
            /\ Abs(W - DecayedWeights(decay, k)) <= k
            /\ W >= W_DEFAULT
            /\ W > 0

\* three ticks with the decay 0.995: W = 1 + 0.995 + 0.990025
C13_Witness ==
    /\ decay = DECAY_W
    /\ Len(hist) = 3
    /\ W = 2985025

RECURSIVE SumSeq(_)
SumSeq(q) == IF q = <<>> THEN 0 ELSE q[1] + SumSeq(Tail(q))

\* C14: with decay 1.0 and weight 1.0, after N ticks from the zero state
\* a_out = tanh(mean(u_1..u_N)) for the transformed inputs u_i.
C14_NoDecayIsRunningMean ==
    (decay = SCALE /\ W_DEFAULT = SCALE /\ Len(hist) >= 1) =>
        /\ U = SumSeq(hist)
        /\ W = Len(hist) * SCALE
        /\ a_last = tanh(RoundDiv(SumSeq(hist), Len(hist)))

\* three ticks without decay on three different inputs
C14_Witness ==
    /\ decay = SCALE
    /\ Len(hist) = 3
    /\ hist[1] # hist[2]
    /\ hist[2] # hist[3]
    /\ hist[1] # hist[3]
    /\ a_last = tanh(RoundDiv(hist[1] + hist[2] + hist[3], 3))
\* C17: the file an export writes has the header and one row per record in
\* order and verify_file accepts it with every record counted; on a file,
\* edited or not, verify_file and verify_rows give the same verdict, the same
\* count and the same first-mismatch tick_index.
C17_ExportVerifyRoundTrip ==
    disk # None =>
        /\ edit = None =>
               /\ disk[1][1] = CSV_HEADER
               /\ Len(FileRecords) = Len(rows)
               /\ \A i \in 1..Len(rows) :
                      /\ FileRecords[i][1] = IntStr(i)
                      /\ SubSeq(FileRecords[i], 2, 5) = SubSeq(rows[i], 2, 5)
               /\ verify_file(disk) = Report("ALL CHECKS PASSED", "", "", "", Len(rows))
        /\ (edit = None \/ edit[1].kind = "cell") =>
               LET res == verify_file(disk)
                   mem == verify_rows(FileRecords)
               IN  /\ (res.result = "ALL CHECKS PASSED") = mem[1]
                   /\ res.result \in {"ALL CHECKS PASSED", "VERIFICATION FAILED"}
                   /\ mem[1] => res.count = mem[2]
                   /\ ~mem[1] => res.tick_index = mem[2]

\* an export of three records, not edited, verified by verify_file
C17_Witness ==
    /\ disk # None
    /\ edit = None
    /\ Len(rows) = 3
    /\ stdout # None
    /\ stdout[1].result = "ALL CHECKS PASSED"
    /\ stdout[1].count = 3

\* C18: the runner's loop pass is the desktop's tick with a_stress = 0: from
\* any state, on the same time, elapsed time, cadence and draw, both leave
\* the same U and W and append a record with the same final_align, band and
\* stamp.
C18_CliRunsDesktopKernel ==
    [][rows' # rows =>
          \E now_epoch \in Epochs(last_tick_epoch), noise_unit \in NoiseSet :
             LET dt_ms == IF last_tick_epoch = None THEN TICK_MS
                          ELSE now_epoch - last_tick_epoch[1]
                 k == kernel_step(U, W, source_a_raw(dt_ms, TICK_MS, 0, noise_unit))
                 row == make_row(tick_index, now_utc_iso(now_epoch), k.a_out,
                                 prev_stamp, TICK_MS, dt_ms, 0)
                 new == rows'[Len(rows')]
             IN  /\ last_tick_epoch' = <<now_epoch>>
                 /\ Len(rows') = Len(rows) + 1
                 /\ new[2] = row[2]
                 /\ new[7] = dt_ms
                 /\ U' = k.U
                 /\ W' = k.W
                 /\ new[3] = row[3]
                 /\ new[4] = row[4]
                 /\ new[5] = row[5]
                 /\ prev_stamp' = row[5]]_vars

\* the runner recorded three ticks, one of them after a freeze (2000 ms)
C18_Witness ==
    /\ pc \in {"loop", "export"}
    /\ Len(rows) = 3
    /\ rows[2][7] = 2000
    /\ rows[3][7] = 250

\* C19: the record list never holds more than AUTO_STOP_TICKS records; the
\* tick callback that finds tick_index > AUTO_STOP_TICKS in a running session
\* sets running to False, changes no kernel or chain state, appends no
\* record and schedules no further tick.
C19_AutoStop ==
    /\ [](Len(rows) <= AUTO_STOP_TICKS)
    /\ [][(running /\ tick_index > AUTO_STOP_TICKS) => rows' = rows]_vars
    /\ [][(running /\ tick_index > AUTO_STOP_TICKS /\ after_queue' # after_queue) =>
              /\ ~running'
              /\ after_queue' = after_queue - 1
              /\ UNCHANGED engine]_vars

\* the session was stopped by the guard with AUTO_STOP_TICKS records
C19_Witness ==
    /\ ~running
    /\ Len(rows) = AUTO_STOP_TICKS
    /\ lbl_status = "auto-stop after " \o IntStr(AUTO_STOP_TICKS) \o " ticks."

\* C20: with max_ticks > 0 and no interrupt the runner leaves its loop with
\* exactly max_ticks records, tick_index 1..max_ticks, and goes on to export
\* them (the file, when written, holds them and verifies); with max_ticks = 0
\* it leaves the loop only on Ctrl+C.
C20_CliHardStop ==
    /\ []((max_ticks > 0 /\ ~interrupted /\ pc # "loop") =>
              /\ Len(rows) = max_ticks
              /\ \A i \in 1..Len(rows) : rows[i][1] = i)
    /\ [](pc = "exported" =>
              /\ disk = <<cli_csv_lines(rows)>>
              /\ verify_file(disk) = Report("ALL CHECKS PASSED", "", "", "", Len(rows)))
    /\ []((max_ticks = 0 /\ pc # "loop") => interrupted)
    /\ ((max_ticks > 0) ~> (interrupted \/ pc \in {"exported", "export failed"}))

\* a run with --ticks 3 that was not interrupted and exported its records
C20_Witness ==
    /\ max_ticks = 3
    /\ ~interrupted
    /\ pc = "exported"
    /\ Len(rows) = 3
-----------------------------------------------------------------------------
\* C21: Stop freezes the session without discarding it.  The step of Stop
\* (the status line becomes "stopped.") leaves running False and changes
\* nothing else of the session: U, W, prev_stamp, tick_index, the record
\* list, last_tick_epoch, TICK_MS and the scheduled callbacks are as before.
\* While running is False, the step that consumes a scheduled tick callback
\* changes none of U, W, prev_stamp, tick_index, rows, running and the status
\* line and schedules no successor; and as long as running stays False no
\* step at all changes U, W, prev_stamp, tick_index or the record list.
C21_StopFreezesSession ==
    /\ [][(lbl_status' = "stopped." /\ lbl_status # "stopped.")
            => /\ ~running'
               /\ UNCHANGED <<engine, TICK_MS, after_queue>>]_vars
    /\ [][(~running /\ after_queue' < after_queue)
            => /\ after_queue' = after_queue - 1
               /\ UNCHANGED <<engine, TICK_MS, running, lbl_status>>]_vars
    /\ [][(~running /\ ~running')
            => UNCHANGED <<U, W, prev_stamp, tick_index, rows>>]_vars

\* stopped by Stop in the middle of a session, the callback that was
\* scheduled has run, and the records are still there
C21_Witness ==
    /\ ~running
    /\ lbl_status = "stopped."
    /\ after_queue = 0
    /\ rows # <<>>
    /\ Len(rows) < AUTO_STOP_TICKS
    /\ tick_index = Len(rows) + 1

-----------------------------------------------------------------------------
\* C22: Start while the session is running is a no-op.  on_start is a
\* button of the running session, so every step taken from a state with
\* running = True is checked: none resets the engine, none records a tick
\* without consuming a scheduled callback and none adds a scheduled callback.
\* The scheduled callbacks never grow; the record list either stays, with U,
\* W, prev_stamp and tick_index unchanged, or grows by the one record of the
\* timer's tick, which continues the session (next tick_index, accumulated
\* W, same number of callbacks scheduled).
C22_StartWhileRunningNoOp ==
    [][running =>
        /\ after_queue' <= after_queue
        /\ rows' = rows => UNCHANGED <<U, W, prev_stamp, tick_index>>
        /\ rows' # rows =>
              /\ rows' = Append(rows, rows'[Len(rows')])
              /\ rows'[Len(rows')][1] = tick_index
              /\ tick_index' = tick_index + 1
              /\ W' = MulFix(DECAY_W, W) + W_DEFAULT
              /\ after_queue' = after_queue]_vars

\* a running session with records and a callback scheduled
C22_Witness ==
    /\ running
    /\ Len(rows) = 2
    /\ tick_index = 3
    /\ after_queue = 1
    /\ W = MulFix(DECAY_W, W_DEFAULT) + W_DEFAULT

-----------------------------------------------------------------------------
\* C23: in the desktop front-end at most one tick timer callback is pending
\* at any time, under every interleaving of Start, Stop and timer firings.
C23_SingleTimerChain ==
    after_queue <= 1

-----------------------------------------------------------------------------
\* the first m records of the file f, under its header
FilePrefix(f, m) == <<SubSeq(f[1], 1, m + 1)>>

Passed(count) == Report("ALL CHECKS PASSED", "", "", "", count)

\* C24: every prefix of a valid chain is a valid chain.  When the record
\* list of the session verifies, its first m records verify with count m for
\* every m from 0 to its length; when the file on disk (as written, or with
\* an edit the verifier accepts; no line emptied, which csv skips) passes verify_file with count N, the file
\* cut after its first m records passes with count m for every m in 0..N;
\* and when an exported file has lost its trailing records, the verifier
\* run on it prints ALL CHECKS PASSED with the number of records left.
C24_PrefixOfValidChainIsValid ==
    /\ verify_rows(rows)[1] =>
          \A m \in 0..Len(rows) :
             verify_rows(SubSeq(rows, 1, m)) = <<TRUE, m, "", "">>
    /\ (disk # None /\ \A i \in 1..Len(disk[1]) : disk[1][i] # <<>>) =>
          \A n \in 0..(Len(disk[1]) - 1) :
             verify_file(FilePrefix(disk, n)) = Passed(n) =>
                \A m \in 0..n : verify_file(FilePrefix(disk, m)) = Passed(m)
    /\ (disk # None /\ edit # None /\ edit[1].kind = "trunc" /\ stdout # None) =>
          stdout[1] = Passed(edit[1].k)

\* an export of three records cut down to one, and verified
C24_Witness ==
    /\ Len(rows) = 3
    /\ disk # None
    /\ Len(disk[1]) = 2
    /\ edit = AnEdit("trunc", 1, 0)
    /\ stdout = <<Passed(1)>>

-----------------------------------------------------------------------------
\* C25: the recorded band agrees with the recorded final_align: for every
\* record of a tick, classify_band applied to the number the final_align
\* string writes gives the record's band.
C25_BandAgreesWithFinalAlign ==
    (call # None /\ call[1].fn = "tick_steps_3_4" /\ ret # None) =>
        classify_band_dec(float_of_align(ret[1].final_align)) = ret[1].band

-----------------------------------------------------------------------------
RECURSIVE MinSeq(_)
\* the smallest element of a sequence that has one
MinSeq(q) ==
    IF Len(q) = 1 THEN q[1]
    ELSE LET m == MinSeq(Tail(q)) IN IF q[1] < m THEN q[1] ELSE m

RECURSIVE MaxSeq(_)
\* the largest element of a sequence that has one
MaxSeq(q) ==
    IF Len(q) = 1 THEN q[1]
    ELSE LET m == MaxSeq(Tail(q)) IN IF q[1] > m THEN q[1] ELSE m

====
